---- MODULE Spec2Model ----
(***************************************************************************)
(* Model of scripts/aggiungi_copertine.py: the cover resolver              *)
(* get_cover_from_ibs and the catalog enricher                             *)
(* enrich_books_with_ibs_covers.                                           *)
(*                                                                         *)
(* Python strings are sequences of one-character strings; the element Sur  *)
(* stands for one lone surrogate code point (json.load produces it from an *)
(* escape such as "\udc80").  A JSON field value is a record [t, s]: t is  *)
(* "absent" (no such key), "none" (null) or "str" (a string, s its text).  *)
(***************************************************************************)
EXTENDS Integers, Sequences, FiniteSets, TLC

VARIABLES
  \* ---- enrich_books_with_ibs_covers ----
  pc,            \* position of the run in the function body
  file,          \* the file at BOOKS_PATH: [st, recs]
  books,         \* the list returned by json.load, mutated in place
  idx,           \* 1-based position of the for loop (processed)
  updated,       \* the counter `updated`
  cover_url,     \* the local cover_url returned by the last resolver call
  wpos,          \* number of records json.dump has written to the open file
  consoleStrict, \* TRUE when sys.stdout rejects lone surrogates (errors=strict)
  orig,          \* history: the catalog as loaded by this run
  called,        \* history: indices for which get_cover_from_ibs was invoked
  returned,      \* history: indices whose resolver call returned, with the value
  visited,       \* history: the indices the loop body has been entered for
  writes,        \* history: number of completed rewrites of the file in this run
  \* ---- a single call of get_cover_from_ibs ----
  r_pc, r_title, r_author, r_page, r_res

evars == <<pc, file, books, idx, updated, cover_url, wpos, consoleStrict,
           orig, called, returned, visited, writes>>
rvars == <<r_pc, r_title, r_author, r_page, r_res>>
vars == <<evars, rvars>>

(***************************************************************************)
(* Bounds of the model                                                     *)
(***************************************************************************)
MaxBooks == 2   \* longest catalog
MaxItems == 2   \* most search results on a search page
MaxImgs == 2    \* most img elements on a detail page

(***************************************************************************)
(* Python values and string operations                                     *)
(***************************************************************************)
Sur == "<U+DC80>"

Absent == [t |-> "absent", s |-> <<>>]

None == [t |-> "none", s |-> <<>>]

Str(x) == [t |-> "str", s |-> x]

\* dict.get(key, default)
Get(v, default) == IF v.t = "absent" THEN default ELSE v

\* truth value of a field value: None and "" are falsy
Truthy(v) == v.t = "str" /\ v.s # <<>>

\* str(v) as an f-string formats it
NoneText == <<"N","o","n","e">>

Fmt(v) == IF v.t = "none" THEN NoneText ELSE v.s

IsSpace(c) == c = " "

RECURSIVE LStrip(_)
LStrip(s) == IF s # <<>> /\ IsSpace(Head(s)) THEN LStrip(Tail(s)) ELSE s

RECURSIVE RStrip(_)
RStrip(s) ==
  IF s # <<>> /\ IsSpace(s[Len(s)]) THEN RStrip(SubSeq(s, 1, Len(s) - 1)) ELSE s

\* str.strip()
Strip(s) == RStrip(LStrip(s))

\* str.startswith(p)
StartsWith(s, p) == Len(s) >= Len(p) /\ SubSeq(s, 1, Len(p)) = p

\* str.find(p), 1-based; 0 when p does not occur
Find(s, p) ==
  LET hits == {i \in 1..(Len(s) - Len(p) + 1) : SubSeq(s, i, i + Len(p) - 1) = p}
  IN IF hits = {} THEN 0 ELSE CHOOSE i \in hits : \A j \in hits : i <= j

\* p in s
Contains(s, p) == Find(s, p) # 0

\* s.split(sep)[1], for s containing sep: the text between the first
\* occurrence of sep and the next one (or the end of s)
SplitSecond(s, sep) ==
  LET rest == SubSeq(s, Find(s, sep) + Len(sep), Len(s))
      nxt == Find(rest, sep)
  IN IF nxt = 0 THEN rest ELSE SubSeq(rest, 1, nxt - 1)

\* str.encode("utf-8", "strict") succeeds: no lone surrogate
CanEncodeUtf8(s) == \A i \in 1..Len(s) : s[i] # Sur

RECURSIVE quote(_)
\* urllib.parse.quote on an encodable string: unreserved characters are kept,
\* the space becomes %20
quote(s) ==
  IF s = <<>> THEN <<>>
  ELSE (IF Head(s) = " " THEN <<"%","2","0">> ELSE <<Head(s)>>) \o quote(Tail(s))

(***************************************************************************)
(* String constants of the source                                          *)
(***************************************************************************)
Origin == <<"h","t","t","p","s",":","/","/","w","w","w",".","i","b","s",".","i","t">>

SearchPrefix == Origin \o <<"/","s","e","a","r","c","h","/","?","t","s","=","a","s","&","q","u","e","r","y","=">>

ImagePrefix == Origin \o <<"/","i","m","a","g","e","s","/">>

ImageSuffix == <<"_","0","_","0","_","5","3","6","_","0","_","7","5",".","j","p","g">>

Http == <<"h","t","t","p">>

SepE == <<"/","e","/">>

ImagesSeg == <<"/","i","m","a","g","e","s","/">>

DotJpg == <<".","j","p","g">>

MinIsbnLen == 10

(***************************************************************************)
(* The external site: what the two GETs of one lookup return               *)
(***************************************************************************)
SchemeHttp == <<"h","t","t","p",":","/","/">>

SchemeHttps == <<"h","t","t","p","s",":","/","/">>

\* an absolute http(s) URL
IsAbsolute(u) == StartsWith(u, SchemeHttp) \/ StartsWith(u, SchemeHttps)

\* requests.get(url, ...) followed by raise_for_status() raises: the URL has no
\* scheme (MissingSchema), or the network / the status fails
FetchRaises(url, outcome) == ~IsAbsolute(url) \/ outcome = "error"

Isbn9 == <<"1","2","3","4","5","6","7","8","9">>

Isbn10 == Isbn9 \o <<"0">>

Isbn13 == <<"9","7","8","8","8","0","7","0","3","4","6","6","4">>

HrefPlain == <<"/","b">>

HrefShort == <<"/","b">> \o SepE \o Isbn9

HrefRel == <<"/","b">> \o SepE \o Isbn10 \o <<" ">>

HrefAbs == Origin \o <<"/","b">> \o SepE \o Isbn10

HrefEmptyId == <<"/","b">> \o SepE

HrefHttpRel == <<"h","t","t","p","x">> \o SepE \o Isbn10

Hrefs == {None, Str(HrefPlain), Str(HrefShort), Str(HrefRel), Str(HrefAbs),
          Str(HrefEmptyId), Str(HrefHttpRel)}

\* a .search-item-book node: whether it holds a ".description a" node, and
\* that node's href attribute
SearchItems ==
  {[hasLink |-> FALSE, href |-> None]} \cup {[hasLink |-> TRUE, href |-> h] : h \in Hrefs}

\* the meta[property="og:url"] node of a detail page: whether the node exists,
\* and its content attribute (Absent when the node carries none)
NoMeta == [node |-> FALSE, content |-> Absent]

Metas == {NoMeta, [node |-> TRUE, content |-> Absent],
          [node |-> TRUE, content |-> Str(Origin \o <<"/","b">> \o SepE \o Isbn13)],
          [node |-> TRUE, content |-> Str(Origin \o <<"/","b">> \o SepE \o <<"9","7","8">>)]}

SrcRel == ImagesSeg \o <<"c">> \o DotJpg

SrcAbs == ImagePrefix \o <<"d">> \o DotJpg

SrcPng == ImagesSeg \o <<"x",".","p","n","g">>

SrcHttpRel == <<"h","t","t","p","x">> \o ImagesSeg \o <<"e">> \o DotJpg

Srcs == {SrcRel, SrcAbs, SrcPng, SrcHttpRel}

SeqsUpTo(S, n) == UNION {[1..k -> S] : k \in 0..n}

\* the pages one lookup can be served
Pages ==
  [search : {"error"}, items : {<<>>}, detail : {"error"}, meta : {NoMeta}, imgs : {<<>>}]
  \cup
  [search : {"ok"}, items : SeqsUpTo(SearchItems, MaxItems), detail : {"error"},
   meta : {NoMeta}, imgs : {<<>>}]
  \cup
  [search : {"ok"}, items : SeqsUpTo(SearchItems, MaxItems) \ {<<>>}, detail : {"ok"},
   meta : Metas, imgs : SeqsUpTo(Srcs, MaxImgs)]

(***************************************************************************)
(* get_cover_from_ibs                                                      *)
(***************************************************************************)
\* outcome of a call: raised (an exception reached the caller) or a returned
\* value val; via names the return statement taken, book_link the address of
\* the detail fetch (<<>> when none was attempted), isbn the identifier held
\* when the length gate is evaluated
Outcome(raised, val, via, link, isbn) ==
  [raised |-> raised, val |-> val, via |-> via, book_link |-> link, isbn |-> isbn]

\* lines 61-62 and 97-98: prefix the origin unless the link starts with "http"
MakeAbsolute(link) == IF ~StartsWith(link, Http) THEN Origin \o link ELSE link

\* lines 76-77: the identifier from the detail page's own address
IsbnFromLink(book_link) ==
  IF Contains(book_link, SepE) THEN Strip(SplitSecond(book_link, SepE)) ELSE <<>>

\* lines 81-83: the identifier from the meta[property="og:url"] node
IsbnFromMeta(meta) ==
  LET content == Get(meta.content, Str(<<>>)).s
  IN IF meta.node /\ Contains(content, SepE)
       THEN Strip(SplitSecond(content, SepE)) ELSE <<>>

\* the meta tag consulted first
ExtractIsbn_MetaFirst(book_link, meta) ==
  IF IsbnFromMeta(meta) # <<>> THEN IsbnFromMeta(meta) ELSE IsbnFromLink(book_link)

\* lines 72-83: the link first, the meta tag only when the link gave nothing
ExtractIsbn(book_link, meta) ==
  IF IsbnFromLink(book_link) # <<>> THEN IsbnFromLink(book_link) ELSE IsbnFromMeta(meta)

\* the gate off by one
IsbnAccepted_Min9(isbn) == isbn # <<>> /\ Len(isbn) >= MinIsbnLen - 1

\* line 86
IsbnAccepted(isbn) == isbn # <<>> /\ Len(isbn) >= MinIsbnLen

\* line 88
TemplatedUrl(isbn) == ImagePrefix \o isbn \o ImageSuffix

\* line 93: select_one('img[src*="/images/"][src*=".jpg"]'), <<>> for no node
SelectCoverImg(imgs) ==
  LET hits == {i \in 1..Len(imgs) : Contains(imgs[i], ImagesSeg) /\ Contains(imgs[i], DotJpg)}
  IN IF hits = {} THEN <<>> ELSE imgs[CHOOSE i \in hits : \A j \in hits : i <= j]

\* lines 69-103, once the detail page has been fetched
ResolveFromDetail(book_link, page) ==
  LET isbn == ExtractIsbn(book_link, page.meta)
      cover_img == SelectCoverImg(page.imgs)
  IN IF IsbnAccepted(isbn)
       THEN Outcome(FALSE, TemplatedUrl(isbn), "isbn", book_link, isbn)
     ELSE IF cover_img # <<>>
       THEN Outcome(FALSE, MakeAbsolute(cover_img), "img", book_link, isbn)
     ELSE Outcome(FALSE, <<>>, "nocover", book_link, isbn)

get_cover_from_ibs(title, author, page) ==
  LET query == Fmt(title) \o <<" ">> \o Fmt(author)
  IN IF ~CanEncodeUtf8(query)
       THEN Outcome(TRUE, <<>>, "raise", <<>>, <<>>)           \* line 24, before the try
     ELSE LET search_url == SearchPrefix \o quote(query) IN
       IF FetchRaises(search_url, page.search)
         THEN Outcome(FALSE, <<>>, "except", <<>>, <<>>)       \* lines 38-39 -> 105-107
       ELSE IF page.items = <<>>
         THEN Outcome(FALSE, <<>>, "noresult", <<>>, <<>>)     \* lines 47-49
       ELSE IF ~page.items[1].hasLink
         THEN Outcome(FALSE, <<>>, "nolink", <<>>, <<>>)       \* lines 56-58
       ELSE IF page.items[1].href.t # "str"
         THEN Outcome(FALSE, <<>>, "except", <<>>, <<>>)       \* line 61: None.startswith
       ELSE LET book_link == MakeAbsolute(page.items[1].href.s) IN
         IF FetchRaises(book_link, page.detail)
           THEN Outcome(FALSE, <<>>, "except", book_link, <<>>) \* lines 66-67 -> 105-107
         ELSE ResolveFromDetail(book_link, page)

(***************************************************************************)
(* One call of get_cover_from_ibs on drawn inputs                          *)
(***************************************************************************)
\* (title, author) pairs a caller can pass
LookupArgs ==
  {<<Str(<<"a">>), Str(<<"b">>)>>, <<Str(<<"a"," ","c">>), None>>,
   <<Str(<<Sur>>), Str(<<"b">>)>>, <<Str(<<"a">>), Str(<<"b", Sur>>)>>}

ArgsEncodable(a) == CanEncodeUtf8(Fmt(a[1]) \o Fmt(a[2]))

\* a page served to a call that never issues a request is immaterial
ErrorPage ==
  [search |-> "error", items |-> <<>>, detail |-> "error", meta |-> NoMeta, imgs |-> <<>>]

MissingFile == [st |-> "missing", recs |-> <<>>]

NoOutcome == Outcome(FALSE, <<>>, "pending", <<>>, <<>>)

InitResolver ==
  /\ pc = "idle" /\ file = MissingFile /\ books = <<>>
  /\ idx = 0 /\ updated = 0 /\ cover_url = <<>> /\ wpos = 0 /\ consoleStrict = FALSE
  /\ orig = <<>> /\ called = {} /\ returned = {} /\ visited = <<>> /\ writes = 0
  /\ r_pc = "call"
  /\ \E a \in LookupArgs :
       /\ r_title = a[1]
       /\ r_author = a[2]
       /\ r_page \in (IF ArgsEncodable(a) THEN Pages ELSE {ErrorPage})
  /\ r_res = NoOutcome

Resolve ==
  /\ r_pc = "call"
  /\ r_res' = get_cover_from_ibs(r_title, r_author, r_page)
  /\ r_pc' = IF r_res'.raised THEN "raised" ELSE "returned"
  /\ UNCHANGED <<r_title, r_author, r_page>>

(***************************************************************************)
(* enrich_books_with_ibs_covers                                            *)
(***************************************************************************)
Book(title, author, cover) == [title |-> title, author |-> author, cover_url |-> cover]

Titles == {Absent, None, Str(<<>>), Str(<<" ">>), Str(<<"a">>), Str(<<Sur>>)}

Authors == {Absent, Str(<<"b">>)}

Covers == {Absent, Str(<<" ">>), Str(<<"u">>)}

BookRecords == {Book(t, a, c) : t \in Titles, a \in Authors, c \in Covers}

Catalogs == SeqsUpTo(BookRecords, MaxBooks)

\* the pages the site serves during a run of the enricher
SitePages ==
  {ErrorPage,
   [search |-> "ok", items |-> <<>>, detail |-> "error", meta |-> NoMeta, imgs |-> <<>>],
   [search |-> "ok", items |-> <<[hasLink |-> TRUE, href |-> Str(HrefAbs)]>>,
    detail |-> "ok", meta |-> NoMeta, imgs |-> <<>>],
   [search |-> "ok", items |-> <<[hasLink |-> TRUE, href |-> Str(HrefPlain)]>>,
    detail |-> "ok", meta |-> NoMeta, imgs |-> <<SrcRel>>]}

\* json.load succeeds on the file
Loadable(f) == f.st = "complete"

\* print(text) raises UnicodeEncodeError
PrintRaises(text) == consoleStrict /\ ~CanEncodeUtf8(text)

\* the file object (encoding="utf-8") accepts the text of a record
RecordEncodable(b) ==
  CanEncodeUtf8(Fmt(b.title)) /\ CanEncodeUtf8(Fmt(b.author)) /\ CanEncodeUtf8(Fmt(b.cover_url))

\* the strip test inverted
HasCover_BlankOnly(book) ==
  Truthy(Get(book.cover_url, None)) /\ Strip(Get(book.cover_url, None).s) = <<>>

\* line 131
HasCover(book) ==
  Truthy(Get(book.cover_url, None)) /\ Strip(Get(book.cover_url, None).s) # <<>>

\* line 135: `not title` is false
HasTitle(book) == Truthy(Get(book.title, Str(<<>>)))

\* the record replaced instead of updated
SetCover_Replace(book, url) == [title |-> Absent, author |-> Absent, cover_url |-> Str(url)]

\* line 145
SetCover(book, url) == [book EXCEPT !.cover_url = Str(url)]

\* the save guarded by the resolver's result
ShouldSave_OnlyWhenFound(url) == url # <<>>

\* lines 151-153: the save is not guarded by the resolver's result
ShouldSave(url) == TRUE

Init ==
  /\ r_pc = "idle" /\ r_title = None /\ r_author = None
  /\ r_page = ErrorPage /\ r_res = NoOutcome
  /\ pc = "start"
  /\ file \in {MissingFile} \cup {[st |-> "complete", recs |-> c] : c \in Catalogs}
  /\ consoleStrict \in BOOLEAN
  /\ books = <<>> /\ idx = 0 /\ updated = 0 /\ cover_url = <<>> /\ wpos = 0
  /\ orig = <<>> /\ called = {} /\ returned = {} /\ visited = <<>> /\ writes = 0

hist == <<orig, called, returned, visited, writes>>

\* lines 113-123
Load ==
  /\ pc = "start"
  /\ IF file.st = "missing"
       THEN pc' = "nofile" /\ UNCHANGED <<books, idx, orig>>
     ELSE IF ~Loadable(file)
       THEN pc' = "aborted" /\ UNCHANGED <<books, idx, orig>>   \* json.load raises
     ELSE pc' = "loop" /\ books' = file.recs /\ orig' = file.recs /\ idx' = 1
  /\ UNCHANGED <<file, updated, cover_url, wpos, consoleStrict, called, returned, visited, writes>>

InLoop == pc = "loop" /\ idx >= 1 /\ idx <= Len(books)

\* lines 125-133
SkipCovered ==
  /\ InLoop
  /\ HasCover(books[idx])
  /\ visited' = Append(visited, idx)
  /\ IF PrintRaises(Fmt(Get(books[idx].title, Str(<<>>))))
       THEN pc' = "aborted" /\ idx' = idx
       ELSE pc' = "loop" /\ idx' = idx + 1
  /\ UNCHANGED <<file, books, updated, cover_url, wpos, consoleStrict, orig, called, returned, writes>>

\* lines 125-137
SkipNoTitle ==
  /\ InLoop
  /\ ~HasCover(books[idx])
  /\ ~HasTitle(books[idx])
  /\ visited' = Append(visited, idx)
  /\ idx' = idx + 1
  /\ UNCHANGED <<pc, file, books, updated, cover_url, wpos, consoleStrict, orig, called, returned, writes>>

\* lines 125-149: the resolver is called and its result stored
Lookup ==
  /\ InLoop
  /\ ~HasCover(books[idx])
  /\ HasTitle(books[idx])
  /\ visited' = Append(visited, idx)
  /\ LET title == Get(books[idx].title, Str(<<>>))
         author == Get(books[idx].author, Str(<<>>))
     IN IF PrintRaises(Fmt(title) \o Fmt(author))                 \* line 139
          THEN /\ pc' = "aborted"
               /\ UNCHANGED <<books, updated, cover_url, called, returned, idx>>
          ELSE \E page \in SitePages :
                 LET res == get_cover_from_ibs(title, author, page) IN
                 /\ called' = called \cup {idx}
                 /\ IF res.raised
                      THEN /\ pc' = "aborted"
                           /\ UNCHANGED <<books, updated, cover_url, returned, idx>>
                      ELSE /\ cover_url' = res.val
                           /\ returned' = returned \cup {<<idx, res.val>>}
                           /\ IF res.val # <<>>
                                THEN /\ books' = [books EXCEPT ![idx] = SetCover(@, res.val)]
                                     /\ updated' = updated + 1
                                ELSE UNCHANGED <<books, updated>>
                           /\ IF ShouldSave(res.val)
                                THEN pc' = "save" /\ idx' = idx
                                ELSE pc' = "loop" /\ idx' = idx + 1
  /\ UNCHANGED <<file, wpos, consoleStrict, orig, writes>>

\* line 152: open(BOOKS_PATH, "w") truncates the file
OpenFile ==
  /\ pc = "save"
  /\ file' = [st |-> "partial", recs |-> <<>>]
  /\ wpos' = 0
  /\ pc' = "dump"
  /\ UNCHANGED <<books, idx, updated, cover_url, consoleStrict, hist>>

\* line 153: json.dump writes the catalog piece by piece
DumpRecord ==
  /\ pc = "dump"
  /\ wpos < Len(books)
  /\ IF RecordEncodable(books[wpos + 1])
       THEN /\ file' = [file EXCEPT !.recs = Append(@, books[wpos + 1])]
            /\ wpos' = wpos + 1
            /\ pc' = "dump"
       ELSE /\ pc' = "aborted"                                  \* UnicodeEncodeError
            /\ UNCHANGED <<file, wpos>>
  /\ UNCHANGED <<books, idx, updated, cover_url, consoleStrict, hist>>

\* lines 153-156: the dump is complete, the file is closed, the loop goes on
CloseFile ==
  /\ pc = "dump"
  /\ wpos = Len(books)
  /\ file' = [file EXCEPT !.st = "complete"]
  /\ writes' = writes + 1
  /\ idx' = idx + 1
  /\ pc' = "loop"
  /\ UNCHANGED <<books, updated, cover_url, wpos, consoleStrict, orig, called, returned, visited>>

\* line 158
Summary ==
  /\ pc = "loop"
  /\ idx > Len(books)
  /\ pc' = "done"
  /\ UNCHANGED <<file, books, idx, updated, cover_url, wpos, consoleStrict, hist>>

\* the process is killed (signal, power loss) while it runs
Interrupt ==
  /\ pc \in {"loop", "save", "dump"}
  /\ pc' = "crashed"
  /\ UNCHANGED <<file, books, idx, updated, cover_url, wpos, consoleStrict, hist>>

\* lines 160-163: the script is started again on the file as it was left
Rerun ==
  /\ pc \in {"crashed", "aborted"}
  /\ pc' = "start"
  /\ books' = <<>> /\ idx' = 0 /\ updated' = 0 /\ cover_url' = <<>> /\ wpos' = 0
  /\ orig' = <<>> /\ called' = {} /\ returned' = {} /\ visited' = <<>> /\ writes' = 0
  /\ UNCHANGED <<file, consoleStrict>>

Next ==
  \/ (Load /\ UNCHANGED rvars)
  \/ (SkipCovered /\ UNCHANGED rvars)
  \/ (SkipNoTitle /\ UNCHANGED rvars)
  \/ (Lookup /\ UNCHANGED rvars)
  \/ (OpenFile /\ UNCHANGED rvars)
  \/ (DumpRecord /\ UNCHANGED rvars)
  \/ (CloseFile /\ UNCHANGED rvars)
  \/ (Summary /\ UNCHANGED rvars)
  \/ (Interrupt /\ UNCHANGED rvars)
  \/ (Rerun /\ UNCHANGED rvars)

Spec == Init /\ [][Next]_vars

NextResolver == Resolve /\ UNCHANGED evars

SpecResolver == InitResolver /\ [][NextResolver]_vars

(***************************************************************************)
(* Properties of the enricher (checked under Spec)                         *)
(***************************************************************************)
\* the catalog of this run has been loaded
Loaded == idx >= 1

\* a cover_url that is a non-blank string
NonBlank(v) == v.t = "str" /\ \E i \in 1..Len(v.s) : v.s[i] # " "

\* a title that is absent, null, empty or whitespace only
BlankTitle(v) == v.t # "str" \/ \A i \in 1..Len(v.s) : v.s[i] = " "

\* a record the loop has to resolve: cover_url blank and a title present
Eligible(b) == ~NonBlank(b.cover_url) /\ b.title.t = "str" /\ b.title.s # <<>>

ReturnedIdx == {p[1] : p \in returned}

InSeq(x, q) == \E k \in 1..Len(q) : q[k] = x

\* C1: a record whose cover_url is non-blank when the catalog is loaded is never
\* passed to get_cover_from_ibs, and its cover_url keeps the loaded value in
\* memory and in everything written to the file during the run.
C1_CoveredRecordsUntouched ==
  Loaded =>
    \A i \in 1..Len(orig) :
      NonBlank(orig[i].cover_url) =>
        /\ i \notin called
        /\ books[i].cover_url = orig[i].cover_url
        /\ (i <= Len(file.recs) => file.recs[i].cover_url = orig[i].cover_url)

\* a finished run that passed a covered record and rewrote the file for another
C1_Witness ==
  /\ pc = "done" /\ writes >= 1
  /\ \E i \in 1..Len(orig) : NonBlank(orig[i].cover_url) /\ InSeq(i, visited)

\* C2: get_cover_from_ibs is never invoked for a record whose title is blank or
\* missing (absent key, null, empty string or whitespace-only string).
C2_BlankTitleNeverResolved ==
  \A i \in called : ~BlankTitle(orig[i].title)

\* C4: the file is rewritten in full once after each resolver call that
\* returns, found or not, and never for a skipped record; a run that reaches
\* the summary over a catalog with N eligible records has rewritten it N times.
C4_OneRewritePerProcessedRecord ==
  Loaded =>
    /\ writes = Cardinality({i \in ReturnedIdx : i < idx})
    /\ \A i \in 1..Len(orig) : ~Eligible(orig[i]) => i \notin called
    /\ (pc = "done" =>
          writes = Cardinality({i \in 1..Len(orig) : Eligible(orig[i])}))

\* a finished run with one record found and one not found, two rewrites
C4_Witness ==
  /\ pc = "done" /\ writes = 2
  /\ \E p, q \in returned : p[2] = <<>> /\ q[2] # <<>>

\* C5: wherever a run is interrupted, the file is a loadable catalog holding
\* every original record in order, cover_url set exactly for the records
\* resolved and flushed before the interruption.
C5_InterruptLeavesLoadableCatalog ==
  pc = "crashed" =>
    /\ Loadable(file)
    /\ Len(file.recs) = Len(orig)
    /\ \A i \in 1..Len(orig) :
         /\ file.recs[i].title = orig[i].title
         /\ file.recs[i].author = orig[i].author

\* C6: a run changes nothing but cover_url. In memory the catalog keeps its
\* length, order and other fields; cover_url changes only for an eligible
\* record, to the non-empty value its single resolver call returned; every
\* record written to the file is the in-memory record or its earlier state,
\* a completed rewrite holds all records; with every record covered the run
\* ends with memory and file equal to the loaded catalog.
C6_OnlyCoverUrlChanges ==
  Loaded =>
    /\ Len(books) = Len(orig)
    /\ \A p, q \in returned : p[1] = q[1] => p = q
    /\ \A i \in 1..Len(orig) :
         /\ books[i].title = orig[i].title
         /\ books[i].author = orig[i].author
         /\ (books[i].cover_url # orig[i].cover_url =>
               /\ Eligible(orig[i])
               /\ \E p \in returned :
                    p[1] = i /\ p[2] # <<>> /\ books[i].cover_url = Str(p[2]))
    /\ \A i \in 1..Len(file.recs) :
         /\ i <= Len(orig)
         /\ file.recs[i].title = orig[i].title
         /\ file.recs[i].author = orig[i].author
         /\ file.recs[i].cover_url \in {orig[i].cover_url, books[i].cover_url}
    /\ (file.st = "complete" => Len(file.recs) = Len(orig))
    /\ (pc = "done" /\ (\A i \in 1..Len(orig) : NonBlank(orig[i].cover_url)) =>
          books = orig /\ file.recs = orig /\ writes = 0)

\* a finished run that set a cover_url and wrote it to the file
C6_Witness ==
  /\ pc = "done" /\ file.st = "complete"
  /\ \E i \in 1..Len(orig) :
       books[i].cover_url # orig[i].cover_url /\ file.recs[i] = books[i]

\* C7: once the catalog is loaded, no per-record event stops the pass: the
\* loop never ends in an unhandled exception.
C7_LoopNeverAborts ==
  ~(Loaded /\ pc = "aborted")

(***************************************************************************)
(* Properties of the resolver (checked under SpecResolver)                 *)
(***************************************************************************)
\* the call got as far as the length gate of line 86
ReachedGate == r_pc = "returned" /\ r_res.via \in {"isbn", "img", "nocover"}

RECURSIVE FirstCoverSrc(_)
\* the src of the first img whose src contains "/images/" and ".jpg"
FirstCoverSrc(imgs) ==
  IF imgs = <<>> THEN <<>>
  ELSE IF Contains(Head(imgs), ImagesSeg) /\ Contains(Head(imgs), DotJpg) THEN Head(imgs)
  ELSE FirstCoverSrc(Tail(imgs))

\* the link as the claim wants it normalised
Normalised(link) == IF IsAbsolute(link) THEN link ELSE Origin \o link

\* C3: get_cover_from_ibs never raises to its caller, whatever the title, the
\* author and the step that fails.
C3_ResolverNeverRaises ==
  r_pc # "raised"

\* C8: when the extracted identifier has fewer than 10 characters the templated
\* URL is not returned; the result is the first matching image's URL if the page
\* has one and the empty string otherwise.
C8_ShortIdentifierFallsBack ==
  (ReachedGate /\ Len(r_res.isbn) < 10) =>
    /\ r_res.via # "isbn"
    /\ IF FirstCoverSrc(r_page.imgs) # <<>>
         THEN /\ r_res.via = "img"
              /\ r_res.val \in {FirstCoverSrc(r_page.imgs), Origin \o FirstCoverSrc(r_page.imgs)}
         ELSE r_res.via = "nocover" /\ r_res.val = <<>>

\* a 9-character identifier was rejected and the image of the page returned
C8_Witness ==
  ReachedGate /\ Len(r_res.isbn) = 9 /\ r_res.via = "img" /\ r_res.val # <<>>

\* C9: the identifier is the one of the detail page's address, and the one of
\* the og:url meta tag only when the address yields none; when it has at least
\* 10 characters the templated URL built from it is returned, also when the
\* page holds a matching image, and otherwise the templated URL is not returned.
C9_IdentifierPreferredAddressFirst ==
  ReachedGate =>
    LET fromAddress == IsbnFromLink(r_res.book_link)
        id == IF fromAddress # <<>> THEN fromAddress ELSE IsbnFromMeta(r_page.meta)
    IN /\ r_res.isbn = id
       /\ (Len(id) >= 10 =>
             r_res.via = "isbn" /\ r_res.val = ImagePrefix \o id \o ImageSuffix)
       /\ (Len(id) < 10 => r_res.via # "isbn")

\* address and meta tag give different usable identifiers, the page holds a
\* matching image, and the URL built from the address's identifier is returned
C9_Witness ==
  /\ ReachedGate /\ r_res.via = "isbn"
  /\ FirstCoverSrc(r_page.imgs) # <<>>
  /\ Len(IsbnFromLink(r_res.book_link)) >= 10
  /\ Len(IsbnFromMeta(r_page.meta)) >= 10
  /\ IsbnFromLink(r_res.book_link) # IsbnFromMeta(r_page.meta)

\* C10: the address of the detail fetch and a cover URL taken from an image are
\* absolute URLs: the origin followed by the link when the link is relative,
\* the link itself when it is absolute.
C10_LinksNormalised ==
  /\ (r_res.book_link # <<>> =>
        /\ IsAbsolute(r_res.book_link)
        /\ r_res.book_link = Normalised(r_page.items[1].href.s))
  /\ (r_res.via = "img" =>
        /\ IsAbsolute(r_res.val)
        /\ r_res.val = Normalised(FirstCoverSrc(r_page.imgs)))

====
